---------------------------- MODULE Spec2Model ----------------------------
(***************************************************************************)
(* A model of mopm: the vault codec (Encoder, Header, Body), the           *)
(* encryption providers, the PasswordManager, the Storage commands and     *)
(* the honeypot shield of App.                                             *)
(*                                                                         *)
(* Bytes are integers 0..255 and byte strings are sequences of bytes, as   *)
(* in the code.  SHA-256 and AES-256-GCM are library code; they are        *)
(* replaced by stand-ins with the same shape (a 32-byte digest; a 12-byte  *)
(* nonce, a ciphertext of the plaintext's length and a 16-byte tag over    *)
(* key, nonce and ciphertext) computed with a polynomial hash modulo a     *)
(* prime, so that every single-byte change of the input changes the        *)
(* digest or the tag.                                                      *)
(***************************************************************************)
EXTENDS Integers, Sequences, FiniteSets, TLC

\* ------------------------------------------------------------ constants

HeaderSize == 34
DigestSize == 32
U64Size == 8
KeySize == 32
NONCE_LENGTH == 12
TagSize == 16
BLANKENCRYPTOR_ID == 0
AESENCRYPTOR_ID == 1
V0_0 == 0
HashPrime == 46337
HashBase == 257
TagBase == 263
ThirdBase == 269

\* ------------------------------------------------------------ bounds

MaxEntries == 2
MaxStores == 1
MaxWatchers == 2
MaxPending == 1

\* ------------------------------------------------------------ byte helpers

Min(a, b) == IF a < b THEN a ELSE b

Max(a, b) == IF a > b THEN a ELSE b

Rep(b, n) == [i \in 1..n |-> b]

Take(s, n) == SubSeq(s, 1, Min(n, Len(s)))

Drop(s, n) == SubSeq(s, Min(n, Len(s)) + 1, Len(s))

\* base^8 modulo HashPrime.
Pow8(base) ==
    LET p2 == (base * base) % HashPrime
        p4 == (p2 * p2) % HashPrime
    IN  (p4 * p4) % HashPrime

\* The polynomial sum of the eight bytes from lo, modulo HashPrime.
Leaf8(bs, lo, base) ==
    ((((((((((((((bs[lo] + 1) * base + bs[lo + 1] + 1) % HashPrime)
        * base + bs[lo + 2] + 1) % HashPrime)
        * base + bs[lo + 3] + 1) % HashPrime)
        * base + bs[lo + 4] + 1) % HashPrime)
        * base + bs[lo + 5] + 1) % HashPrime)
        * base + bs[lo + 6] + 1) % HashPrime)
        * base + bs[lo + 7] + 1) % HashPrime

\* The polynomial sum of (bs[i] + 1) * base^(hi - i) for i in lo..hi and
\* base^(hi - lo + 1), both modulo HashPrime: ranges of eight bytes and of
\* fewer than four directly, longer ones split at a multiple of eight.
RECURSIVE RangeHash(_, _, _, _)
RangeHash(bs, lo, hi, base) ==
    IF lo > hi THEN << 0, 1 >>
    ELSE IF hi - lo = 7 THEN << Leaf8(bs, lo, base), Pow8(base) >>
    ELSE IF hi - lo < 4
    THEN LET h1 == (bs[lo] + 1) % HashPrime
             p1 == base % HashPrime
             h2 == IF hi > lo THEN (h1 * base + bs[lo + 1] + 1) % HashPrime ELSE h1
             p2 == IF hi > lo THEN (p1 * base) % HashPrime ELSE p1
             h3 == IF hi > lo + 1 THEN (h2 * base + bs[lo + 2] + 1) % HashPrime ELSE h2
             p3 == IF hi > lo + 1 THEN (p2 * base) % HashPrime ELSE p2
             h4 == IF hi > lo + 2 THEN (h3 * base + bs[lo + 3] + 1) % HashPrime ELSE h3
             p4 == IF hi > lo + 2 THEN (p3 * base) % HashPrime ELSE p3
         IN  << h4, p4 >>
    ELSE LET chunks == (hi - lo + 8) \div 8
             mid == IF chunks = 1 THEN lo + 3 ELSE lo + 8 * (chunks \div 2) - 1
             l == RangeHash(bs, lo, mid, base)
             r == RangeHash(bs, mid + 1, hi, base)
         IN  << (l[1] * r[2] + r[1]) % HashPrime, (l[2] * r[2]) % HashPrime >>

\* A polynomial hash of bs: a change of one byte, or of the length, changes it.
PolyHash(bs, base, seed) ==
    LET h == RangeHash(bs, 1, Len(bs), base)
    IN  (seed * h[2] + h[1]) % HashPrime

\* Two base-256 digits of a value below HashPrime.
Digits2(d) == << d \div 256, d % 256 >>

\* Six bytes of three polynomial hashes of bs.
Mix(bs, seed) ==
    Digits2(PolyHash(bs, HashBase, seed)) \o Digits2(PolyHash(bs, TagBase, seed + 1))
        \o Digits2(PolyHash(bs, ThirdBase, seed + 2))

\* ------------------------------------------------------------ hasher

\* Mutant of Sha256: the data is never fed to the hasher.
Sha256NoUpdate(bs) == Mix(<< >>, 1) \o Rep(0, DigestSize - 6)

\* The 32 digest bytes of sha2::Sha256 over the data (stand-in, see above),
\* as Encoder puts them in Header.body_sha and compares them.
Sha256(bs) == Mix(bs, 1) \o Rep(0, DigestSize - 6)

\* One lower-case hexadecimal digit.
HexDigit(n) == IF n < 10 THEN 48 + n ELSE 87 + n

\* hex::encode: two digits per byte, the high one first.
HexEncode(bs) ==
    [i \in 1..(2 * Len(bs)) |->
        IF i % 2 = 1 THEN HexDigit(bs[(i + 1) \div 2] \div 16)
        ELSE HexDigit(bs[i \div 2] % 16)]

\* Sha256Hasher::hash as hasher.rs has it: the digest as a String of 64
\* hexadecimal digits.
Sha256Hasher_hash(bs) == HexEncode(Sha256(bs))

\* ------------------------------------------------------------ encryptors

\* Mutant of AesKey: of a longer password the last 32 bytes are kept.
AesKeyFromEnd(password) ==
    LET byte_key == IF Len(password) > KeySize
                    THEN SubSeq(password, Len(password) - KeySize + 1, Len(password))
                    ELSE password
    IN  IF Len(byte_key) < KeySize
        THEN byte_key \o Rep(0, KeySize - Len(byte_key))
        ELSE byte_key

\* AESEncryptor::new: the password truncated to, or zero-padded to, 32 bytes.
AesKey(password) ==
    LET byte_key == IF Len(password) > KeySize THEN SubSeq(password, 1, KeySize)
                    ELSE password
    IN  IF Len(byte_key) < KeySize
        THEN byte_key \o Rep(0, KeySize - Len(byte_key))
        ELSE byte_key

KeyStream(key, nonce, i) ==
    (key[((i - 1) % KeySize) + 1] + nonce[((i - 1) % NONCE_LENGTH) + 1] + i) % 256

\* The 16-byte authentication tag over key, nonce and ciphertext.
AesTag(key, nonce, ct) == Mix(key \o nonce \o ct, 7) \o Rep(0, TagSize - 6)

\* cipher.encrypt(&nonce, data): ciphertext of the data's length, then the tag.
AeadEncrypt(key, nonce, data) ==
    LET ct == [i \in 1..Len(data) |-> (data[i] + KeyStream(key, nonce, i)) % 256]
    IN  ct \o AesTag(key, nonce, ct)

\* cipher.decrypt(nonce, ciphertext): fails unless the tag verifies.
AeadDecrypt(key, nonce, ciphertext) ==
    IF Len(ciphertext) < TagSize THEN [ok |-> FALSE, data |-> << >>]
    ELSE LET n  == Len(ciphertext) - TagSize
             ct == SubSeq(ciphertext, 1, n)
         IN  IF SubSeq(ciphertext, n + 1, Len(ciphertext)) # AesTag(key, nonce, ct)
             THEN [ok |-> FALSE, data |-> << >>]
             ELSE [ok |-> TRUE,
                   data |-> [i \in 1..n |->
                               (ct[i] + 256 - KeyStream(key, nonce, i)) % 256]]

\* An encryptor is its identifier and, for AES, the derived key.
BlankEncryptor == [id |-> BLANKENCRYPTOR_ID, key |-> << >>]

AESEncryptor(password) == [id |-> AESENCRYPTOR_ID, key |-> AesKey(password)]

\* Encryprtor::encrypt; nonce is the nonce generate_nonce(OsRng) draws.
Encrypt(enc, nonce, data) ==
    IF enc.id = BLANKENCRYPTOR_ID THEN data
    ELSE nonce \o AeadEncrypt(enc.key, nonce, data)

\* Encryprtor::decrypt.
Decrypt(enc, data) ==
    IF enc.id = BLANKENCRYPTOR_ID THEN [ok |-> TRUE, data |-> data]
    ELSE IF Len(data) < NONCE_LENGTH THEN [ok |-> FALSE, data |-> << >>]
    ELSE AeadDecrypt(enc.key, SubSeq(data, 1, NONCE_LENGTH),
                     SubSeq(data, NONCE_LENGTH + 1, Len(data)))

\* Mutant of encryptor_from_id: the AES provider is built without the key.
encryptor_from_id_NoKey(id, key) ==
    IF id = BLANKENCRYPTOR_ID THEN [some |-> TRUE, enc |-> BlankEncryptor]
    ELSE IF id = AESENCRYPTOR_ID THEN [some |-> TRUE, enc |-> AESEncryptor(<< >>)]
    ELSE [some |-> FALSE, enc |-> BlankEncryptor]

\* Mutant of encryptor_from_id: an unknown id falls back to the blank provider.
encryptor_from_id_Fallback(id, key) ==
    IF id = AESENCRYPTOR_ID THEN [some |-> TRUE, enc |-> AESEncryptor(key)]
    ELSE [some |-> TRUE, enc |-> BlankEncryptor]

\* identifiers::encryptor_from_id: None for an unknown id.
encryptor_from_id(id, key) ==
    IF id = BLANKENCRYPTOR_ID THEN [some |-> TRUE, enc |-> BlankEncryptor]
    ELSE IF id = AESENCRYPTOR_ID THEN [some |-> TRUE, enc |-> AESEncryptor(key)]
    ELSE [some |-> FALSE, enc |-> BlankEncryptor]

\* ------------------------------------------------------------ version

\* Version::from_u8: V0_0 is the only version.
VersionFromU8(id) == IF id = V0_0 THEN [some |-> TRUE, v |-> V0_0]
                     ELSE [some |-> FALSE, v |-> V0_0]

current_version == V0_0

\* ------------------------------------------------------------ body

\* Mutant of U64ToBe: the length written little-endian.
U64ToLe(n) ==
    << n % 256, (n \div 256) % 256, (n \div 65536) % 256, (n \div 16777216) % 256,
       0, 0, 0, 0 >>

\* u64::to_be_bytes of a length (lengths of the model are below 2^31).
U64ToBe(n) ==
    << 0, 0, 0, 0, (n \div 16777216) % 256, (n \div 65536) % 256,
       (n \div 256) % 256, n % 256 >>

\* u64::from_be_bytes as usize; a value of 2^31 or more is reported as
\* 2^31 - 1, which is longer than every buffer of the model as well.
U64FromBe(bs) ==
    IF bs[1] # 0 \/ bs[2] # 0 \/ bs[3] # 0 \/ bs[4] # 0 \/ bs[5] >= 128
    THEN 2147483647
    ELSE bs[5] * 16777216 + bs[6] * 65536 + bs[7] * 256 + bs[8]

\* String::from_utf8's validity check, from position i.
Cont(bs, i) == i <= Len(bs) /\ bs[i] >= 128 /\ bs[i] <= 191

RECURSIVE Utf8From(_, _)
Utf8From(bs, i) ==
    IF i > Len(bs) THEN TRUE
    ELSE LET b == bs[i]
             In2(lo, hi) == i + 1 <= Len(bs) /\ bs[i + 1] >= lo /\ bs[i + 1] <= hi
         IN  IF b < 128 THEN Utf8From(bs, i + 1)
             ELSE IF b >= 194 /\ b <= 223 THEN Cont(bs, i + 1) /\ Utf8From(bs, i + 2)
             ELSE IF b = 224 THEN In2(160, 191) /\ Cont(bs, i + 2) /\ Utf8From(bs, i + 3)
             ELSE IF (b >= 225 /\ b <= 236) \/ b = 238 \/ b = 239
                  THEN Cont(bs, i + 1) /\ Cont(bs, i + 2) /\ Utf8From(bs, i + 3)
             ELSE IF b = 237 THEN In2(128, 159) /\ Cont(bs, i + 2) /\ Utf8From(bs, i + 3)
             ELSE IF b = 240
                  THEN In2(144, 191) /\ Cont(bs, i + 2) /\ Cont(bs, i + 3)
                       /\ Utf8From(bs, i + 4)
             ELSE IF b >= 241 /\ b <= 243
                  THEN Cont(bs, i + 1) /\ Cont(bs, i + 2) /\ Cont(bs, i + 3)
                       /\ Utf8From(bs, i + 4)
             ELSE IF b = 244
                  THEN In2(128, 143) /\ Cont(bs, i + 2) /\ Cont(bs, i + 3)
                       /\ Utf8From(bs, i + 4)
             ELSE FALSE

IsUtf8(bs) == Utf8From(bs, 1)

\* The empty mapping (HashMap::new()).
EmptyKv == [k \in {} |-> << >>]

\* HashMap::insert: inserts or overwrites.
KvInsert(kv, k, v) == [x \in DOMAIN kv \cup {k} |-> IF x = k THEN v ELSE kv[x]]

\* Mutant of BodyToBytesFrom: the value's length is written before the key's.
RECURSIVE BodyToBytesLengthsSwapped(_, _, _)
BodyToBytesLengthsSwapped(kv, order, i) ==
    IF i > Len(order) THEN << >>
    ELSE LET key == order[i]
             value == kv[key]
         IN  U64ToBe(Len(value)) \o U64ToBe(Len(key)) \o key \o value
                 \o BodyToBytesLengthsSwapped(kv, order, i + 1)

\* Body::to_bytes; order is the order in which kv.iter() yields the keys.
RECURSIVE BodyToBytesFrom(_, _, _)
BodyToBytesFrom(kv, order, i) ==
    IF i > Len(order) THEN << >>
    ELSE LET key == order[i]
             value == kv[key]
         IN  U64ToBe(Len(key)) \o U64ToBe(Len(value)) \o key \o value
                 \o BodyToBytesFrom(kv, order, i + 1)

BodyToBytes(kv, order) == BodyToBytesFrom(kv, order, 1)

\* Body::read_u64 at position pos (1-based): BodyParseError when fewer than 8
\* bytes are left.
ReadU64(bytes, pos) ==
    IF pos + U64Size - 1 > Len(bytes) THEN [ok |-> FALSE, v |-> 0, pos |-> Len(bytes) + 1]
    ELSE [ok |-> TRUE, v |-> U64FromBe(SubSeq(bytes, pos, pos + U64Size - 1)),
          pos |-> pos + U64Size]

\* Body::try_from_bytes: the while loop from position pos with the entries kv
\* read so far.
RECURSIVE BodyParseFrom(_, _, _)
BodyParseFrom(bytes, pos, kv) ==
    IF pos > Len(bytes) THEN [ok |-> TRUE, kv |-> kv]
    ELSE LET kl == ReadU64(bytes, pos)
             vl == ReadU64(bytes, kl.pos)
         IN  IF ~kl.ok \/ ~vl.ok THEN [ok |-> FALSE, kv |-> EmptyKv]
             ELSE LET left == Len(bytes) - vl.pos + 1
                  IN  IF kl.v > left THEN [ok |-> FALSE, kv |-> EmptyKv]
                      ELSE IF vl.v > left - kl.v THEN [ok |-> FALSE, kv |-> EmptyKv]
                      ELSE LET key == SubSeq(bytes, vl.pos, vl.pos + kl.v - 1)
                               value == SubSeq(bytes, vl.pos + kl.v,
                                               vl.pos + kl.v + vl.v - 1)
                           IN  IF ~IsUtf8(key) THEN [ok |-> FALSE, kv |-> EmptyKv]
                               ELSE BodyParseFrom(bytes, vl.pos + kl.v + vl.v,
                                                  KvInsert(kv, key, value))

BodyTryFromBytes(bytes) ==
    IF Len(bytes) = 0 THEN [ok |-> TRUE, kv |-> EmptyKv]
    ELSE BodyParseFrom(bytes, 1, EmptyKv)

\* ------------------------------------------------------------ header

\* Mutant of HeaderToBytes: the encryptor id and the version change places.
HeaderToBytesIdFirst(h) == << h.encryptor_id, current_version >> \o h.body_sha

\* Header::to_bytes.
HeaderToBytes(h) == << current_version, h.encryptor_id >> \o h.body_sha

\* Header::try_from_bytes on exactly HeaderSize bytes.
HeaderTryFromBytes(bytes) ==
    LET version == VersionFromU8(bytes[1])
    IN  IF ~version.some THEN [ok |-> FALSE, err |-> "HeaderParseError"]
        ELSE [ok |-> TRUE, err |-> "",
              header |-> [version |-> version.v, encryptor_id |-> bytes[2],
                          body_sha |-> SubSeq(bytes, 3, HeaderSize)]]

\* Header::try_from_reader: one read call into a HeaderSize buffer.  The
\* reader holds data and delivers at most chunk bytes per read call.
HeaderTryFromReader(r) ==
    LET n == Min(HeaderSize, Min(Len(r.data), r.chunk))
    IN  IF n # HeaderSize THEN [ok |-> FALSE, err |-> "InvalidHeaderSize", n |-> n]
        ELSE [n |-> n] @@ HeaderTryFromBytes(SubSeq(r.data, 1, HeaderSize))


\* ------------------------------------------------------------ manager

\* PasswordManager::from_raw_parts.
from_raw_parts(kv, encryptor) == [kv |-> kv, encryptor |-> encryptor]

\* PasswordManager::init: an empty mapping and a new provider from the password.
PasswordManagerInit(password) == from_raw_parts(EmptyKv, AESEncryptor(password))

\* Mutant of store_password: the value is inserted without being encrypted.
store_password_NoEncrypt(pm, key, value, nonce) ==
    [pm EXCEPT !.kv = KvInsert(pm.kv, key, value)]

\* PasswordManager::store_password: encrypts the value and inserts it.
store_password(pm, key, value, nonce) ==
    [pm EXCEPT !.kv = KvInsert(pm.kv, key, Encrypt(pm.encryptor, nonce, value))]

\* PasswordManager::get_password.
get_password(pm, key) ==
    IF key \notin DOMAIN pm.kv
    THEN [ok |-> FALSE, err |-> "NoPasswordFound", value |-> << >>]
    ELSE LET d == Decrypt(pm.encryptor, pm.kv[key])
         IN  IF ~d.ok THEN [ok |-> FALSE, err |-> "EncryptorError", value |-> << >>]
             ELSE [ok |-> TRUE, err |-> "", value |-> d.data]

\* ------------------------------------------------------------ encoder

\* A writer is the bytes of its target, the position of the next write and
\* the number of bytes the target still accepts (room; negative: no limit);
\* lost counts the bytes offered to it that it did not take.
\* Write::write overwrites from the position, extends the target when it runs
\* past the end, and takes at most room bytes (none: Ok(0) or an Err).
WriterWrite(w, bytes) ==
    LET n == IF w.room < 0 THEN Len(bytes) ELSE Min(Len(bytes), w.room)
        total == Max(Len(w.data), w.pos + n)
    IN  [data |-> [i \in 1..total |->
                     IF i > w.pos /\ i <= w.pos + n THEN bytes[i - w.pos]
                     ELSE w.data[i]],
         pos |-> w.pos + n,
         room |-> IF w.room < 0 THEN w.room ELSE w.room - n,
         lost |-> w.lost + (Len(bytes) - n)]

\* Encoder::encode: the header, then the encrypted body, written to w; what
\* the two write calls return is dropped and nothing is returned.
Encode(w, pm, nonce, order) ==
    LET body_bytes == BodyToBytes(pm.kv, order)
        body_sha == Sha256(body_bytes)
        body_encrypted == Encrypt(pm.encryptor, nonce, body_bytes)
        header == [version |-> current_version,
                   encryptor_id |-> pm.encryptor.id,
                   body_sha |-> body_sha]
    IN  WriterWrite(WriterWrite(w, HeaderToBytes(header)), body_encrypted)

\* The result of Encoder::decode: kind is "Ok", "Err" (a returned
\* EncoderError) or "Panic" (an unwrap of an Err aborts the thread); stage is
\* the last step decode began and consumed the bytes taken from the reader.
DecodeResult(kind, err, stage, consumed, pm) ==
    [kind |-> kind, err |-> err, stage |-> stage, consumed |-> consumed, pm |-> pm]

NoPm == from_raw_parts(EmptyKv, BlankEncryptor)

\* Mutant of DigestMatches: the digests are not compared.
DigestMatchesAlways(body_sha, body_decrypted) == TRUE

\* The comparison of the header's digest with the digest of the decrypted
\* body in Encoder::decode.
DigestMatches(body_sha, body_decrypted) == body_sha = Sha256(body_decrypted)

\* Encoder::decode.
Decode(key, r) ==
    LET h == HeaderTryFromReader(r)
    IN  IF ~h.ok THEN DecodeResult("Err", h.err, "header", h.n, NoPm)
        ELSE
        LET e == encryptor_from_id(h.header.encryptor_id, key)
        IN  IF ~e.some
            THEN DecodeResult("Err", "UnsupportedEncryptorVersionError", "encryptor",
                              h.n, NoPm)
            ELSE
            LET buf == Drop(r.data, h.n)
                body_decrypted == Decrypt(e.enc, buf)
            IN  IF ~body_decrypted.ok
                THEN DecodeResult("Panic", "DecryptionError", "decrypt",
                                  Len(r.data), NoPm)
                ELSE IF ~DigestMatches(h.header.body_sha, body_decrypted.data)
                THEN DecodeResult("Err", "IvalidKeyError", "digest", Len(r.data), NoPm)
                ELSE
                LET kv == BodyTryFromBytes(body_decrypted.data)
                IN  IF ~kv.ok
                    THEN DecodeResult("Panic", "BodyParseError", "parse",
                                      Len(r.data), NoPm)
                    ELSE DecodeResult("Ok", "", "parse", Len(r.data),
                                      from_raw_parts(kv.kv, e.enc))


\* ------------------------------------------------------------ inputs

\* Keys are the UTF-8 bytes of a String: "", "a" and the two-byte U+01A5.
Keys == { << >>, << 97 >>, << 198, 165 >> }

\* Values are opaque bytes: empty, and one that is not valid UTF-8.
Values == { << >>, << 255, 0 >> }

\* "", "p", "p\0", "q", 32 and 33 times "a".
Passwords == { << >>, << 112 >>, << 112, 0 >>, << 113 >>, Rep(97, 32), Rep(97, 33) }

EncodePasswords == { << >>, << 112 >>, Rep(97, 33) }

\* The nonces generate_nonce(OsRng) may draw.
Nonces == { Rep(16, NONCE_LENGTH), Rep(32, NONCE_LENGTH) }

Mappings ==
    UNION { [D -> Values] : D \in { S \in SUBSET Keys : Cardinality(S) <= MaxEntries } }

\* Every order in which the entries of a mapping can be iterated.
Orders(S) == { o \in [1..Cardinality(S) -> S] : \A k \in S : \E i \in DOMAIN o : o[i] = k }

\* Plaintext bodies for streams that no encode wrote: empty, one entry, a
\* truncated length field, a key and a value that run past the end, a key
\* that is not UTF-8, a length of 2^64 - 1.
RawBodies ==
    { << >>,
      U64ToBe(1) \o U64ToBe(2) \o << 97, 255, 0 >>,
      << 0, 0, 0 >>,
      U64ToBe(5) \o U64ToBe(0) \o << 97 >>,
      U64ToBe(1) \o U64ToBe(9) \o << 97, 1 >>,
      U64ToBe(1) \o U64ToBe(0) \o << 255 >>,
      Rep(255, U64Size) \o U64ToBe(0) \o << 97 >> }

\* Streams given to decode: a header with any version, encryptor id and
\* digest, then a body (as is, or AES-encrypted), cut at any of a few lengths.
RawStreams ==
    { Take(<< v, id >> \o sha \o enc, n) :
        v \in {V0_0, 1}, id \in {BLANKENCRYPTOR_ID, AESENCRYPTOR_ID, 2, 255},
        sha \in { Rep(0, DigestSize) } \cup { Sha256(b) : b \in RawBodies },
        enc \in RawBodies \cup { Encrypt(AESEncryptor(<< 112 >>), Rep(7, NONCE_LENGTH), b) :
                                   b \in RawBodies },
        n \in {0, 1, HeaderSize - 1, HeaderSize, HeaderSize + 11, 1000} }

\* ------------------------------------------------------------ state

VARIABLES
    cPhase,     \* codec run: "idle", "encoded", "decoded"
    cPm,        \* the PasswordManager given to Encoder::encode
    cPw,        \* the password it was built from
    cBytes,     \* the bytes Encoder::encode wrote
    cIn,        \* the reader given to Encoder::decode
    cKey,       \* the password given to Encoder::decode
    cTamper,    \* the offset (0-based) of the byte replaced before decode, or -1
    cRes        \* what Encoder::decode returned

codecVars == << cPhase, cPm, cPw, cBytes, cIn, cKey, cTamper, cRes >>

VARIABLES
    realRoot,   \* the directory ~/.mopm itself exists (under any mount)
    dataExists, \* its file .data exists
    dataFile,   \* the bytes of that file
    decoyDir,   \* the directory /tmp/mopm-dummy-upper exists
    decoyFile,  \* its file not-a-honeypot.txt exists
    mounts,     \* the number of bind mounts of the decoy over ~/.mopm
    wBlocked,   \* shield processes blocked in read_events_blocking
    wTriggered, \* shield processes whose read returned an event
    wSleeping,  \* shield processes in the sleep after handle_shield_down
    umountsDown,  \* umount children spawned by `shield down`, not yet run
    umountsWatch, \* umount children spawned by a shield process, not yet run
    atPrompt,   \* the commands of which some process waits in
                \* Terminal::read_password
    atMount,    \* `shield up` processes that wait for their mount child,
                \* which has not run yet
    atWatch,    \* `shield up` processes whose mount child made the mount and
                \* that have not yet gone on to the watch
    atFatal,    \* `shield up` processes whose mount child failed and that
                \* have not yet gone on to report it
    nStores,    \* the stores that succeeded, counted against MaxStores
    last,       \* the last command run and what it reported
    vaultPw,    \* the password of the last successful init
    stored,     \* key -> the plaintext last stored with success since init
    downUmount, \* the umount of a `shield down` run on a blocked shield:
                \* "pending", "failed", or "none" (no such umount, or done)
    cancelled,  \* `shield down` was run on a blocked shield since `shield up`
    destroyedByWatcher, \* a shield process deleted the real root since init
    wEnd        \* the state in which the last trigger sequence ended, whether
                \* a shield process ended without one (crashed), whether it
                \* did so before its watch was registered (unwatched) and whether
                \* the last read of a shield process returned for an open of
                \* the decoy file (opened)

fsVars == << realRoot, dataExists, dataFile, decoyDir, decoyFile, mounts >>

procVars == << wBlocked, wTriggered, wSleeping, umountsDown, umountsWatch >>

ghostVars == << nStores, last, vaultPw, stored, downUmount, cancelled,
                destroyedByWatcher, wEnd >>

mountVars == << atMount, atWatch, atFatal >>

promptVars == << atPrompt, mountVars >>

sysVars == << fsVars, procVars, promptVars, ghostVars >>

VARIABLES
    vPm,        \* an in-memory PasswordManager
    vPlain,     \* key -> the plaintext last given to store_password for the key
    vLast       \* the last operation on it and what it returned

vaultVars == << vPm, vPlain, vLast >>

vars == << codecVars, sysVars, vaultVars >>

NoResult == DecodeResult("None", "", "none", 0, NoPm)

NoReader == [data |-> << >>, chunk |-> HeaderSize]

CodecInit ==
    /\ cPhase = "idle"
    /\ cPm = NoPm
    /\ cPw = << >>
    /\ cBytes = << >>
    /\ cIn = NoReader
    /\ cKey = << >>
    /\ cTamper = -1
    /\ cRes = NoResult

\* A Vec<u8> writer and a Cursor reader over all of the bytes.
VecWriter == [data |-> << >>, pos |-> 0, room |-> -1, lost |-> 0]

Cursor(bytes) == [data |-> bytes, chunk |-> Len(bytes) + HeaderSize]

\* ------------------------------------------------------------ storage

\* The passwords, keys and values typed at the commands.
InitPasswords == { << 9, 112, 194, 160 >> }

CommandPasswords == { << 112, 13 >>, << 113 >> }

StoreKeys == { << 97 >>, << 98 >> }

StoreValues == { << 120 >> }

\* The nonces an encrypt call of a command may draw; every call draws its own.
CommandNonces == Nonces

\* The commands that ask for the password.
PromptCmds == { "init", "store", "get" }

NoPrompt == {}

\* A process running cmd reaches its password prompt.
Prompted(cmd) == atPrompt' = atPrompt \cup { cmd }

\* A process that waits at the prompt of cmd has its password: it was the
\* last one waiting there, or another one still waits.
Typed(cmd) ==
    /\ cmd \in atPrompt
    /\ atPrompt' \in { atPrompt \ { cmd }, atPrompt }

\* The length of the white-space character (a char with the Unicode property
\* White_Space, in UTF-8) that starts at bs[i]; 0 when none does.
WsAt(bs, i) ==
    LET b1 == bs[i]
        b2 == IF i + 1 <= Len(bs) THEN bs[i + 1] ELSE -1
        b3 == IF i + 2 <= Len(bs) THEN bs[i + 2] ELSE -1
    IN  IF b1 \in 9..13 \/ b1 = 32 THEN 1
        ELSE IF b1 = 194 /\ b2 \in { 133, 160 } THEN 2
        ELSE IF b1 = 225 /\ b2 = 154 /\ b3 = 128 THEN 3
        ELSE IF b1 = 226 /\ b2 = 128 /\ b3 \in (128..138) \cup { 168, 169, 175 } THEN 3
        ELSE IF b1 = 226 /\ b2 = 129 /\ b3 = 159 THEN 3
        ELSE IF b1 = 227 /\ b2 = 128 /\ b3 = 128 THEN 3
        ELSE 0

\* The length of the white-space character that ends at bs[i]; 0 when none
\* does.
WsBefore(bs, i) ==
    IF WsAt(bs, i) = 1 THEN 1
    ELSE IF i >= 2 /\ WsAt(bs, i - 1) = 2 THEN 2
    ELSE IF i >= 3 /\ WsAt(bs, i - 2) = 3 THEN 3
    ELSE 0

RECURSIVE TrimStart(_)
TrimStart(bs) ==
    IF bs = << >> \/ WsAt(bs, 1) = 0 THEN bs
    ELSE TrimStart(Drop(bs, WsAt(bs, 1)))

RECURSIVE TrimEnd(_)
TrimEnd(bs) ==
    IF bs = << >> \/ WsBefore(bs, Len(bs)) = 0 THEN bs
    ELSE TrimEnd(Take(bs, Len(bs) - WsBefore(bs, Len(bs))))

\* str::trim on the typed password: the white space at its start and at its
\* end is dropped.
Trim(bs) == TrimEnd(TrimStart(bs))

NoLast == [cmd |-> "none", outcome |-> "", key |-> << >>, pw |-> << >>,
           value |-> << >>, short |-> FALSE]

Said(cmd, outcome) == [NoLast EXCEPT !.cmd = cmd, !.outcome = outcome]

NoEnd == [done |-> FALSE, mounted |-> FALSE, realRoot |-> FALSE,
          umountPending |-> FALSE, decoyEmptied |-> FALSE, crashed |-> FALSE,
          unwatched |-> FALSE, opened |-> FALSE]

SysInit ==
    /\ realRoot = FALSE
    /\ dataExists = FALSE
    /\ dataFile = << >>
    /\ decoyDir = FALSE
    /\ decoyFile = FALSE
    /\ mounts = 0
    /\ wBlocked = 0
    /\ wTriggered = 0
    /\ wSleeping = 0
    /\ umountsDown = 0
    /\ umountsWatch = 0
    /\ atPrompt = NoPrompt
    /\ atMount = 0
    /\ atWatch = 0
    /\ atFatal = 0
    /\ nStores = 0
    /\ last = NoLast
    /\ vaultPw = << >>
    /\ stored = EmptyKv
    /\ downUmount = "none"
    /\ cancelled = FALSE
    /\ destroyedByWatcher = FALSE
    /\ wEnd = NoEnd

\* No operation yet on the in-memory PasswordManager.
NoOp == [op |-> "none", key |-> << >>,
         res |-> [ok |-> FALSE, err |-> "", value |-> << >>]]

VaultInit ==
    /\ vPm = NoPm
    /\ vPlain = EmptyKv
    /\ vLast = NoOp

Init == CodecInit /\ SysInit /\ VaultInit

\* Storage::root().exists(): with the decoy mounted the path shows the decoy.
RootExists == IF mounts > 0 THEN decoyDir ELSE realRoot

\* Storage::data_file().exists(): the decoy holds no .data.
DataFileExists == IF mounts > 0 THEN FALSE ELSE realRoot /\ dataExists

\* Mutant of is_initialized: the data file is not looked for.
is_initialized_RootOnly == RootExists

\* Storage::is_initialized.
is_initialized == RootExists /\ DataFileExists

\* Storage::get_data_reader on a data file that exists: the file read from
\* its start.
DataReader == Cursor(dataFile)

\* Storage::get_data_writer: the file opened for writing, neither created
\* nor truncated, written from its start, on a device with room for room
\* more bytes.
DataWriterRoom(room) == [data |-> dataFile, pos |-> 0, room |-> room, lost |-> 0]

\* The same on a device that takes every write.
DataWriter == DataWriterRoom(-1)

\* The data file as Storage::init opens it: created, empty, on a device with
\* room for room more bytes.
NewDataFile(room) == [data |-> << >>, pos |-> 0, room |-> room, lost |-> 0]

\* What the commands other than the one at work leave alone.
OthersUnchanged ==
    UNCHANGED << procVars, mountVars, downUmount, cancelled, wEnd, codecVars,
                 vaultVars >>

\* App::handle_init up to its password prompt: an initialised storage is
\* reported, otherwise the process waits for the password.
HandleInitCheck ==
    /\ IF is_initialized
       THEN /\ last' = Said("init", "alreadyInitialized")
            /\ UNCHANGED atPrompt
       ELSE /\ Prompted("init")
            /\ UNCHANGED last
    /\ UNCHANGED << fsVars, nStores, vaultPw, stored, destroyedByWatcher >>
    /\ OthersUnchanged

\* App::handle_init from the typed password on: Storage::init with the vault
\* of the trimmed password, the data file being made on a device with room
\* for room more bytes.  The RootAlreadyExistsErorr arm says nothing.
InitTyped(room) ==
    /\ "init" \in atPrompt
    /\ \E pw \in InitPasswords, nonce \in CommandNonces :
         IF RootExists
         THEN /\ last' = Said("init", "rootAlreadyExists")
              /\ UNCHANGED << fsVars, nStores, vaultPw, stored, destroyedByWatcher >>
         ELSE \E w \in { Encode(NewDataFile(room),
                                 PasswordManagerInit(Trim(pw)), nonce, << >>) } :
                  /\ realRoot' = TRUE
                  /\ dataExists' = TRUE
                  /\ dataFile' = w.data
                  /\ last' = [Said("init", "ok") EXCEPT !.pw = Trim(pw),
                                                        !.short = (w.lost > 0)]
                  /\ nStores' = 0
                  /\ vaultPw' = Trim(pw)
                  /\ stored' = EmptyKv
                  /\ destroyedByWatcher' = FALSE
                  /\ UNCHANGED << decoyDir, decoyFile, mounts >>
    /\ Typed("init")
    /\ OthersUnchanged

\* The same on a device that takes every write.
HandleInit == InitTyped(-1)

\* Mutant of ClearOutcome: the root.exists() check is dropped, so that
\* remove_dir_all fails on a missing root.
ClearOutcomeNoCheck ==
    IF ~RootExists \/ mounts > 0 THEN "ioError" ELSE "ok"

\* Storage::clear on the path ~/.mopm: with the decoy mounted remove_dir_all
\* empties the decoy and fails on the mount point; otherwise it removes the
\* real root.  Gives "ok", "rootDoesNotExist" or "ioError".
ClearOutcome ==
    IF ~RootExists THEN "rootDoesNotExist"
    ELSE IF mounts > 0 THEN "ioError"
    ELSE "ok"

ClearEffect ==
    /\ realRoot' = IF ClearOutcome = "ok" THEN FALSE ELSE realRoot
    /\ dataExists' = IF ClearOutcome = "ok" THEN FALSE ELSE dataExists
    /\ dataFile' = IF ClearOutcome = "ok" THEN << >> ELSE dataFile
    /\ decoyFile' = IF ClearOutcome = "ioError" THEN FALSE ELSE decoyFile
    /\ UNCHANGED << decoyDir, mounts >>

\* The deletion of the decoy file ends the inotify watches on it: every
\* shield process blocked in read_events_blocking reads an event (IN_IGNORED),
\* and the loop over the events does not look at what the event is.
WokenByClear == IF ClearOutcome = "ioError" /\ decoyFile THEN wBlocked ELSE 0

BlockedAfterClear == wBlocked - WokenByClear

\* App::handle_clear.
HandleClear ==
    /\ ClearEffect
    /\ wBlocked' = BlockedAfterClear
    /\ wTriggered' = wTriggered + WokenByClear
    /\ last' = Said("clear", ClearOutcome)
    /\ wEnd' = IF WokenByClear > 0 THEN [wEnd EXCEPT !.opened = FALSE] ELSE wEnd
    /\ UNCHANGED << wSleeping, umountsDown, umountsWatch, nStores,
                    vaultPw, stored, downUmount, cancelled, destroyedByWatcher,
                    atPrompt, mountVars, codecVars, vaultVars >>

\* Mutant of get_password_manager: the data file is opened before the
\* prompt, so that the process reads through the handle it got when the
\* command started, whatever was mounted over ~/.mopm while it waited.
get_password_manager_OpenBeforePrompt(pw) ==
    IF ~(realRoot /\ dataExists)
    THEN DecodeResult("Err", "ioError", "open", 0, NoPm)
    ELSE Decode(Trim(pw), DataReader)

\* App::get_password_manager from the typed password on: the data file is
\* opened, which fails when there is none, and decoded with the trimmed
\* password.
get_password_manager(pw) ==
    IF ~DataFileExists THEN DecodeResult("Err", "ioError", "open", 0, NoPm)
    ELSE Decode(Trim(pw), DataReader)

\* App::with_init for the command cmd, up to the password prompt of
\* get_password_manager: a storage that is not initialised is fatal,
\* otherwise the process waits for the password.
with_init(cmd) ==
    /\ IF ~is_initialized
       THEN /\ last' = Said(cmd, "notInitialized")
            /\ UNCHANGED atPrompt
       ELSE /\ Prompted(cmd)
            /\ UNCHANGED last
    /\ UNCHANGED << fsVars, nStores, vaultPw, stored, destroyedByWatcher >>
    /\ OthersUnchanged

StoreCheck == with_init("store")

GetCheck == with_init("get")

\* App::handle_store from the typed password on, the data file being on a
\* device with room for room more bytes.
Store(room) ==
    /\ "store" \in atPrompt
    /\ \E pw \in CommandPasswords :
         \E d \in { get_password_manager(pw) } :
         LET said == [Said("store", "") EXCEPT !.pw = Trim(pw)]
         IN  IF d.kind # "Ok"
             THEN /\ last' = [said EXCEPT !.outcome = d.err]
                  /\ UNCHANGED << dataFile, nStores, stored >>
             ELSE /\ nStores < MaxStores
                  /\ \E key \in StoreKeys, value \in StoreValues,
                        n1 \in CommandNonces, n2 \in CommandNonces :
                       \E pm \in { store_password(d.pm, key, value, n1) } :
                         \E order \in Orders(DOMAIN pm.kv) :
                           \E w \in { Encode(DataWriterRoom(room), pm, n2, order) } :
                             /\ dataFile' = w.data
                             /\ last' = [said EXCEPT !.outcome = "ok",
                                                     !.key = key,
                                                     !.value = value,
                                                     !.short = (w.lost > 0)]
                             /\ nStores' = nStores + 1
                             /\ stored' = KvInsert(stored, key, value)
    /\ UNCHANGED << realRoot, dataExists, decoyDir, decoyFile, mounts, vaultPw,
                    destroyedByWatcher >>
    /\ Typed("store")
    /\ OthersUnchanged

\* App::handle_store on a device that takes every write.
HandleStore == Store(-1)

\* The room a full or failing device has left: none (the first write fails),
\* the header only, the header and part of the body.
Rooms == { 0, HeaderSize, HeaderSize + NONCE_LENGTH }

\* App::handle_store on a device that runs out of room.
HandleStoreNoRoom == \E room \in Rooms : Store(room)

\* App::handle_init on a device that runs out of room.
HandleInitNoRoom == \E room \in Rooms : InitTyped(room)

\* App::handle_get from the typed password on.
HandleGet ==
    /\ "get" \in atPrompt
    /\ \E pw \in CommandPasswords :
         \E d \in { get_password_manager(pw) }, key \in StoreKeys :
           LET said == [Said("get", "") EXCEPT !.key = key, !.pw = Trim(pw)]
           IN  IF d.kind # "Ok" THEN last' = [said EXCEPT !.outcome = d.err]
               ELSE \E g \in { get_password(d.pm, key) } :
                      IF ~g.ok THEN last' = [said EXCEPT !.outcome = g.err]
                      ELSE last' = [said EXCEPT !.outcome = "ok",
                                                !.value = g.value]
    /\ UNCHANGED << fsVars, nStores, vaultPw, stored, destroyedByWatcher >>
    /\ Typed("get")
    /\ OthersUnchanged

Next ==
    \/ HandleInitCheck
    \/ HandleInit
    \/ HandleClear
    \/ StoreCheck
    \/ HandleStore
    \/ GetCheck
    \/ HandleGet

Spec == Init /\ [][Next]_vars

\* The storage commands with devices that run out of room.
DiskNext ==
    \/ HandleInitCheck
    \/ HandleInit
    \/ HandleInitNoRoom
    \/ HandleClear
    \/ StoreCheck
    \/ HandleStore
    \/ HandleStoreNoRoom
    \/ GetCheck
    \/ HandleGet

DiskSpec == Init /\ [][DiskNext]_vars

\* ------------------------------------------------------------ shield

Watchers == wBlocked + wTriggered + wSleeping

Pending == umountsDown + umountsWatch

\* Mutant of MountFatal: a failed mount is not fatal.
MountFatalNever(mountOk) == FALSE

\* The match on the mount command's result in App::handle_shield_up: unless
\* the command ran and its status is a success, logger.fatal ends the process.
MountFatal(mountOk) == ~mountOk

\* What Storage::create_dummies had made of the decoy when it failed: nothing,
\* the directory, or the directory and its file.
DummyMade == { "nothing", "dir", "file" }

\* `mount --bind` of the decoy over ~/.mopm succeeds: the system allows it
\* (mountOk) and both paths exist.
MountSucceeds(mountOk) == mountOk /\ RootExists /\ decoyDir

\* The shield processes that watch or are about to.
ShieldProcesses == Watchers + atMount + atWatch + atFatal

\* Mutant of MountsAfterExit: a guard of the shield process unmounts the
\* decoy when the process ends.
MountsAfterExitUnmounted == IF mounts > 0 THEN mounts - 1 ELSE mounts

\* The mounts when a shield process ends by a panic or a kill:
\* App::handle_shield_up holds no guard and no handler that would undo the
\* mount, which was made by the mount command.
MountsAfterExit == mounts

\* App::handle_shield_up under App::with_init, up to the wait for its mount
\* child.  dummyOk is what Storage::create_dummy answers.
ShieldUpCheck ==
    /\ \E dummyOk \in BOOLEAN, made \in DummyMade :
         IF ~is_initialized
         THEN /\ last' = Said("shieldUp", "notInitialized")
              /\ UNCHANGED << decoyDir, decoyFile, atMount >>
         ELSE IF ~dummyOk
         THEN /\ last' = Said("shieldUp", "cannotCreateDummy")
              /\ decoyDir' = (decoyDir \/ made # "nothing")
              /\ decoyFile' = (decoyFile \/ made = "file")
              /\ UNCHANGED atMount
         ELSE /\ ShieldProcesses < MaxWatchers
              /\ decoyDir' = TRUE
              /\ decoyFile' = TRUE
              /\ atMount' = atMount + 1
              /\ UNCHANGED last
    /\ UNCHANGED << realRoot, dataExists, dataFile, mounts, procVars, atPrompt,
                    atWatch, atFatal, nStores, vaultPw, stored, downUmount,
                    cancelled, destroyedByWatcher, wEnd, codecVars, vaultVars >>

\* The `mount --bind` child of a `shield up` runs while its parent waits in
\* Command::output: it makes the mount or fails.  mountOk is what the system
\* answers.  Nothing is reported yet.
MountRuns ==
    /\ atMount > 0
    /\ atMount' = atMount - 1
    /\ \E mountOk \in BOOLEAN :
         IF MountSucceeds(mountOk)
         THEN /\ mounts' = mounts + 1
              /\ atWatch' = atWatch + 1
              /\ UNCHANGED atFatal
         ELSE /\ atFatal' = atFatal + 1
              /\ UNCHANGED << mounts, atWatch >>
    /\ UNCHANGED << realRoot, dataExists, dataFile, decoyDir, decoyFile,
                    procVars, atPrompt, ghostVars, codecVars, vaultVars >>

\* App::handle_shield_up from the result of its mount child on, up to the
\* blocking read of the watch loop.  mountOk is the result the child gave.
\* After a mount the shield is reported up and the watch on the decoy file
\* is registered; with the decoy file gone the unwrap of the registration
\* ends the process, the mount made and reported.
HandleShieldUp ==
    /\ \E mountOk \in BOOLEAN :
         /\ IF mountOk
            THEN atWatch > 0 /\ atWatch' = atWatch - 1 /\ UNCHANGED atFatal
            ELSE atFatal > 0 /\ atFatal' = atFatal - 1 /\ UNCHANGED atWatch
         /\ IF MountFatal(mountOk)
            THEN /\ last' = Said("shieldUp", "cannotMount")
                 /\ UNCHANGED << mounts, wBlocked, cancelled, wEnd >>
            ELSE IF ~decoyFile
            THEN /\ last' = Said("shieldUp", "watchPanic")
                 /\ mounts' = MountsAfterExit
                 /\ wEnd' = [wEnd EXCEPT !.crashed = (mounts > 0),
                                         !.unwatched = TRUE]
                 /\ UNCHANGED << wBlocked, cancelled >>
            ELSE /\ last' = Said("shieldUp", "up")
                 /\ wBlocked' = wBlocked + 1
                 /\ cancelled' = FALSE
                 /\ wEnd' = NoEnd
                 /\ UNCHANGED mounts
    /\ UNCHANGED << realRoot, dataExists, dataFile, decoyDir, decoyFile,
                    wTriggered, wSleeping, umountsDown, umountsWatch, nStores,
                    vaultPw, stored, downUmount, destroyedByWatcher, atPrompt,
                    atMount, codecVars, vaultVars >>

\* The decoy is mounted, a shield process is blocked in its read and none has
\* read an event.
ShieldUpUntriggered ==
    mounts > 0 /\ wBlocked > 0 /\ wTriggered = 0 /\ wSleeping = 0

\* App::handle_shield_down run as the command `shield down`: umount is
\* spawned and not waited for; spawnOk is whether the spawn succeeded.
HandleShieldDown ==
    /\ Pending < MaxPending
    /\ \E spawnOk \in BOOLEAN :
         IF ~spawnOk
         THEN /\ last' = Said("shieldDown", "cannotSpawn")
              /\ UNCHANGED << umountsDown, downUmount, cancelled >>
         ELSE /\ last' = Said("shieldDown", "down")
              /\ umountsDown' = umountsDown + 1
              /\ downUmount' = IF ShieldUpUntriggered THEN "pending" ELSE "none"
              /\ cancelled' = (cancelled \/ ShieldUpUntriggered)
    /\ UNCHANGED << fsVars, wBlocked, wTriggered, wSleeping, umountsWatch, nStores,
                    vaultPw, stored, destroyedByWatcher, wEnd, atPrompt, mountVars, codecVars,
                    vaultVars >>

\* A spawned umount of ~/.mopm runs: it removes the topmost mount, or fails
\* (nothing is mounted, or the system refuses).
UmountRuns ==
    /\ \E ok \in BOOLEAN :
         /\ mounts' = IF ok /\ mounts > 0 THEN mounts - 1 ELSE mounts
         /\ \/ /\ umountsDown > 0
               /\ umountsDown' = umountsDown - 1
               /\ downUmount' = IF downUmount # "pending" THEN downUmount
                                ELSE IF ok /\ mounts > 0 THEN "none" ELSE "failed"
               /\ UNCHANGED umountsWatch
            \/ /\ umountsWatch > 0
               /\ umountsWatch' = umountsWatch - 1
               /\ UNCHANGED << umountsDown, downUmount >>
    /\ UNCHANGED << realRoot, dataExists, dataFile, decoyDir, decoyFile, wBlocked,
                    wTriggered, wSleeping, nStores, last, vaultPw, stored, cancelled,
                    destroyedByWatcher, wEnd, atPrompt, mountVars, codecVars, vaultVars >>

\* Some process opens the decoy file: every blocked shield process reads the
\* event.
OpenDecoy ==
    /\ decoyFile
    /\ wBlocked > 0
    /\ wTriggered' = wTriggered + wBlocked
    /\ wBlocked' = 0
    /\ wEnd' = [wEnd EXCEPT !.opened = TRUE]
    /\ UNCHANGED << fsVars, wSleeping, umountsDown, umountsWatch, atPrompt, mountVars,
                    nStores, last, vaultPw, stored, downUmount, cancelled,
                    destroyedByWatcher, codecVars, vaultVars >>

\* The watch loop's first event: handle_shield_down, then the sleep begins.
WatcherShieldDown ==
    /\ wTriggered > 0
    /\ Pending < MaxPending
    /\ wTriggered' = wTriggered - 1
    /\ \E spawnOk \in BOOLEAN :
         IF ~spawnOk
         THEN UNCHANGED << wSleeping, umountsWatch >>
         ELSE /\ wSleeping' = wSleeping + 1
              /\ umountsWatch' = umountsWatch + 1
    /\ UNCHANGED << fsVars, wBlocked, umountsDown, atPrompt, mountVars, ghostVars, codecVars,
                    vaultVars >>

\* The sleep is over: handle_clear, then the loop and the process end.
WatcherClear ==
    /\ wSleeping > 0
    /\ wSleeping' = wSleeping - 1
    /\ ClearEffect
    /\ wBlocked' = BlockedAfterClear
    /\ wTriggered' = wTriggered + WokenByClear
    /\ destroyedByWatcher' = (destroyedByWatcher \/ ClearOutcome = "ok")
    /\ wEnd' = [done |-> TRUE, mounted |-> mounts > 0, realRoot |-> realRoot',
                umountPending |-> umountsWatch > 0,
                decoyEmptied |-> decoyFile /\ ~decoyFile',
                crashed |-> wEnd.crashed,
                unwatched |-> wEnd.unwatched,
                opened |-> wEnd.opened]
    /\ UNCHANGED << umountsDown, umountsWatch, nStores, last, vaultPw,
                    stored, downUmount, cancelled, atPrompt, mountVars, codecVars, vaultVars >>

\* A shield process ends without running the trigger sequence, blocked in
\* read_events_blocking or between its mount and its watch: it is killed, or
\* an unwrap of the watch loop panics.  The bind mount was made by the mount
\* command and outlives the process.
ShieldCrash ==
    /\ \/ /\ wBlocked > 0
          /\ wBlocked' = wBlocked - 1
          /\ wEnd' = [wEnd EXCEPT !.crashed = (mounts > 0), !.unwatched = FALSE]
          /\ UNCHANGED atWatch
       \/ /\ atWatch > 0
          /\ atWatch' = atWatch - 1
          /\ wEnd' = [wEnd EXCEPT !.crashed = (mounts > 0), !.unwatched = TRUE]
          /\ UNCHANGED wBlocked
    /\ mounts' = MountsAfterExit
    /\ UNCHANGED << realRoot, dataExists, dataFile, decoyDir, decoyFile,
                    wTriggered, wSleeping, umountsDown, umountsWatch,
                    nStores, last, vaultPw, stored, downUmount, cancelled,
                    destroyedByWatcher, atPrompt, atMount, atFatal, codecVars,
                    vaultVars >>

ShieldNext ==
    \/ HandleInitCheck
    \/ HandleInit
    \/ HandleClear
    \/ ShieldUpCheck
    \/ MountRuns
    \/ HandleShieldUp
    \/ HandleShieldDown
    \/ UmountRuns
    \/ OpenDecoy
    \/ WatcherShieldDown
    \/ WatcherClear
    \/ ShieldCrash

ShieldSpec == Init /\ [][ShieldNext]_vars

\* The state after `mopm init` and `mopm store a hunter2`, nobody waiting at
\* a prompt: App::handle_init followed by App::handle_store.  One more store
\* is explored from it.
SwapInit ==
    /\ CodecInit
    /\ VaultInit
    /\ \E pw \in InitPasswords :
         LET key == << 97 >>
             value == << 104, 117, 110, 116, 101, 114, 50 >>
             nonce == Rep(16, NONCE_LENGTH)
             pm == store_password(PasswordManagerInit(Trim(pw)), key, value, nonce)
         IN  /\ dataFile = Encode(VecWriter, pm, nonce, << key >>).data
             /\ vaultPw = Trim(pw)
             /\ stored = KvInsert(EmptyKv, key, value)
             /\ last = [Said("store", "ok") EXCEPT !.key = key, !.pw = Trim(pw),
                                                   !.value = value]
    /\ realRoot = TRUE
    /\ dataExists = TRUE
    /\ nStores = MaxStores - 1
    /\ decoyDir = FALSE
    /\ decoyFile = FALSE
    /\ mounts = 0
    /\ wBlocked = 0
    /\ wTriggered = 0
    /\ wSleeping = 0
    /\ umountsDown = 0
    /\ umountsWatch = 0
    /\ atPrompt = NoPrompt
    /\ atMount = 0
    /\ atWatch = 0
    /\ atFatal = 0
    /\ downUmount = "none"
    /\ cancelled = FALSE
    /\ destroyedByWatcher = FALSE
    /\ wEnd = NoEnd

\* The vault commands run while a shield is put up and taken down.
SwapNext ==
    \/ StoreCheck
    \/ HandleStore
    \/ GetCheck
    \/ HandleGet
    \/ ShieldUpCheck
    \/ MountRuns
    \/ HandleShieldUp
    \/ HandleShieldDown
    \/ UmountRuns

SwapSpec == SwapInit /\ [][SwapNext]_vars

\* The storage commands run on a vault that holds an entry.
StoredSpec == SwapInit /\ [][Next]_vars

\* ------------------------------------------------------------ codec runs

\* Encoder::encode of a vault built with from_raw_parts (tests::test_encoder).
CodecEncode ==
    /\ cPhase = "idle"
    /\ \E kv \in Mappings, pw \in EncodePasswords, nonce \in Nonces,
          id \in {BLANKENCRYPTOR_ID, AESENCRYPTOR_ID} :
         \E order \in Orders(DOMAIN kv) :
           LET pm == from_raw_parts(kv, IF id = AESENCRYPTOR_ID THEN AESEncryptor(pw)
                                        ELSE BlankEncryptor)
           IN  /\ cPm' = pm
               /\ cPw' = pw
               /\ cBytes' = Encode(VecWriter, pm, nonce, order).data
    /\ cPhase' = "encoded"
    /\ UNCHANGED << cIn, cKey, cTamper, cRes, sysVars, vaultVars >>

\* Encoder::decode of the encoded bytes with any password.
CodecDecode ==
    /\ cPhase = "encoded"
    /\ \E key \in Passwords :
         /\ cKey' = key
         /\ cIn' = Cursor(cBytes)
         /\ cRes' = Decode(key, Cursor(cBytes))
    /\ cPhase' = "decoded"
    /\ UNCHANGED << cPm, cPw, cBytes, cTamper, sysVars, vaultVars >>

\* One byte of the encrypted body replaced by a different value, then
\* Encoder::decode with the password of the encoding.
CodecTamperDecode ==
    /\ cPhase = "encoded"
    /\ \E off \in HeaderSize..(Len(cBytes) - 1) :
         \E b \in { (cBytes[off + 1] + 1) % 256, (cBytes[off + 1] + 128) % 256 } :
           LET data == [cBytes EXCEPT ![off + 1] = b]
           IN  /\ cTamper' = off
               /\ cIn' = Cursor(data)
               /\ cRes' = Decode(cPw, Cursor(data))
    /\ cKey' = cPw
    /\ cPhase' = "decoded"
    /\ UNCHANGED << cPm, cPw, cBytes, sysVars, vaultVars >>

\* Encoder::decode of any stream, from a reader that delivers at most chunk
\* bytes per read call.
CodecDecodeRaw ==
    /\ cPhase = "idle"
    /\ \E data \in RawStreams, key \in { << 112 >>, << 113 >> },
          chunk \in { HeaderSize \div 2, HeaderSize, 1000 } :
         /\ cKey' = key
         /\ cIn' = [data |-> data, chunk |-> chunk]
         /\ cRes' = Decode(key, [data |-> data, chunk |-> chunk])
    /\ cPhase' = "decoded"
    /\ UNCHANGED << cPm, cPw, cBytes, cTamper, sysVars, vaultVars >>

CodecNext == CodecEncode \/ CodecDecode \/ CodecDecodeRaw

CodecSpec == Init /\ [][CodecNext]_vars

\* ------------------------------------------------------------ encryptor runs

\* The passwords of the codec runs and 32 times "a" followed by "b".
KeyPasswords == Passwords \cup { Rep(97, KeySize) \o << 98 >> }

\* The data of tests::test_enc_dec: "", "foo" and a long run of "a".
KeyData == { << >>, << 102, 111, 111 >>, Rep(97, 40) }

\* AESEncryptor::new(password) and encrypt of the data.
KeyEncrypt ==
    /\ cPhase = "idle"
    /\ \E pw \in KeyPasswords, data \in KeyData, nonce \in Nonces :
         LET enc == AESEncryptor(pw)
         IN  /\ cPw' = pw
             /\ cPm' = from_raw_parts(EmptyKv, enc)
             /\ cIn' = Cursor(data)
             /\ cBytes' = Encrypt(enc, nonce, data)
    /\ cPhase' = "encrypted"
    /\ UNCHANGED << cKey, cTamper, cRes, sysVars, vaultVars >>

\* AESEncryptor::new(key) and decrypt of the encrypted bytes.
KeyDecrypt ==
    /\ cPhase = "encrypted"
    /\ \E key \in KeyPasswords :
         LET enc == AESEncryptor(key)
             d == Decrypt(enc, cBytes)
         IN  /\ cKey' = key
             /\ cRes' = [kind |-> IF d.ok THEN "Ok" ELSE "Err",
                         err |-> IF d.ok THEN "" ELSE "DecryptionError",
                         stage |-> "decrypt",
                         consumed |-> Len(cBytes),
                         pm |-> from_raw_parts(EmptyKv, enc),
                         data |-> d.data]
    /\ cPhase' = "decrypted"
    /\ UNCHANGED << cPm, cPw, cBytes, cIn, cTamper, sysVars, vaultVars >>

KeyNext == KeyEncrypt \/ KeyDecrypt

KeySpec == Init /\ [][KeyNext]_vars

\* ------------------------------------------------------------ body runs

\* The keys and values of tests::test_body and of the codec runs: "", "a",
\* a two-byte character, "foo"; "", bytes that are not UTF-8, "bar".
BodyKeys == Keys \cup { << 102, 111, 111 >> }

BodyValues == Values \cup { << 98, 97, 114 >> }

BodyMappings ==
    UNION { [D -> BodyValues] :
              D \in { S \in SUBSET BodyKeys : Cardinality(S) <= MaxEntries } }

\* Body::to_bytes of a mapping, iterated in any order.
BodySerialize ==
    /\ cPhase = "idle"
    /\ \E kv \in BodyMappings :
         \E order \in Orders(DOMAIN kv) :
           /\ cPm' = from_raw_parts(kv, BlankEncryptor)
           /\ cBytes' = BodyToBytes(kv, order)
    /\ cPhase' = "serialized"
    /\ UNCHANGED << cPw, cIn, cKey, cTamper, cRes, sysVars, vaultVars >>

\* Body::try_from_bytes of the serialized bytes.
BodyParse ==
    /\ cPhase = "serialized"
    /\ LET b == BodyTryFromBytes(cBytes)
       IN  cRes' = DecodeResult(IF b.ok THEN "Ok" ELSE "Err",
                                IF b.ok THEN "" ELSE "BodyParseError",
                                "body", Len(cBytes),
                                from_raw_parts(b.kv, BlankEncryptor))
    /\ cPhase' = "parsed"
    /\ UNCHANGED << cPm, cPw, cBytes, cIn, cKey, cTamper, sysVars, vaultVars >>

BodyNext == BodySerialize \/ BodyParse

BodySpec == Init /\ [][BodyNext]_vars

\* ------------------------------------------------------------ vault runs

\* The values given to store_password are text (&str): "", "x", "bar".
VaultValues == { << >>, << 120 >>, << 98, 97, 114 >> }

\* A PasswordManager with an empty mapping and either provider
\* (tests::test_load_store builds one with AESEncryptor::new("foo")).
VaultNew ==
    /\ \E enc \in { BlankEncryptor, AESEncryptor(<< 102, 111, 111 >>) } :
         vPm' = from_raw_parts(EmptyKv, enc)
    /\ vPlain' = EmptyKv
    /\ vLast' = [NoOp EXCEPT !.op = "new"]
    /\ UNCHANGED << codecVars, sysVars >>

\* PasswordManager::store_password on the in-memory vault.
VaultStore ==
    /\ vLast.op # "none"
    /\ \E key \in Keys, value \in VaultValues, nonce \in Nonces :
         /\ vPm' = store_password(vPm, key, value, nonce)
         /\ vPlain' = (key :> value) @@ vPlain
         /\ vLast' = [op |-> "store", key |-> key,
                      res |-> [ok |-> TRUE, err |-> "", value |-> value]]
    /\ UNCHANGED << codecVars, sysVars >>

\* PasswordManager::get_password on the in-memory vault.
VaultGet ==
    /\ vLast.op # "none"
    /\ \E key \in Keys :
         vLast' = [op |-> "get", key |-> key, res |-> get_password(vPm, key)]
    /\ UNCHANGED << vPm, vPlain, codecVars, sysVars >>

VaultNext == VaultNew \/ VaultStore \/ VaultGet

VaultSpec == Init /\ [][VaultNext]_vars

TamperNext == CodecEncode \/ CodecTamperDecode

TamperSpec == Init /\ [][TamperNext]_vars


\* ------------------------------------------------------------ codec claims

Untampered == cPhase = "decoded" /\ cTamper = -1 /\ cBytes # << >>

Tampered == cPhase = "decoded" /\ cTamper >= HeaderSize

RawDecoded == cPhase = "decoded" /\ cBytes = << >>

\* What the header, the provider and the hasher give for the reader's bytes,
\* computed apart from Decode.
InHeaderRead == Len(cIn.data) >= HeaderSize /\ cIn.chunk >= HeaderSize

InEncryptor == encryptor_from_id(cIn.data[2], cKey)

InDecrypted == Decrypt(InEncryptor.enc, Drop(cIn.data, HeaderSize))

InDigest == SubSeq(cIn.data, 3, HeaderSize)

\* C1: decoding the bytes Encoder::encode wrote, with the password of the
\* encoding, succeeds and gives a vault with the encoded mapping and the
\* encoding provider's id, for both providers and every mapping.
C1_RoundTrip ==
    (Untampered /\ cKey = cPw) =>
        /\ cRes.kind = "Ok"
        /\ cRes.pm.kv = cPm.kv
        /\ cRes.pm.encryptor.id = cPm.encryptor.id

C1_Witness ==
    /\ Untampered /\ cKey = cPw
    /\ cPm.encryptor.id = AESENCRYPTOR_ID
    /\ Cardinality(DOMAIN cPm.kv) = 2
    /\ << 198, 165 >> \in DOMAIN cPm.kv
    /\ cRes.kind = "Ok"

\* C3 as stated: decoding with a password other than the one of the encoding
\* fails and yields no vault, for both providers.
C3_WrongKeyRejected_Original ==
    (Untampered /\ cKey # cPw) => cRes.kind # "Ok"

\* C3 as amended: under AES-GCM, decoding with a password whose derived key
\* differs from the encoding's yields no vault, the provider's decrypt being
\* what fails; under the passthrough provider decoding succeeds with every
\* password and gives the encoded mapping.
C3_WrongKeyRejected ==
    Untampered =>
        /\ (cPm.encryptor.id = AESENCRYPTOR_ID /\ AesKey(cKey) # AesKey(cPw)) =>
               (cRes.kind # "Ok" /\ cRes.err = "DecryptionError"
                  /\ cRes.stage = "decrypt")
        /\ cPm.encryptor.id = BLANKENCRYPTOR_ID =>
               (cRes.kind = "Ok" /\ cRes.pm.kv = cPm.kv)

C3_Witness ==
    /\ Untampered
    /\ cPm.encryptor.id = AESENCRYPTOR_ID
    /\ cPw = << 112 >> /\ cKey = << 113 >>
    /\ DOMAIN cPm.kv # {}
    /\ cRes.kind = "Panic"

\* C4: with one byte at an offset of 34 or more replaced by a different
\* value, decode with the password of the encoding returns no vault: the
\* provider's decrypt fails under AES-GCM, the digest check fails with
\* IvalidKeyError under the passthrough provider.
C4_TamperDetected ==
    Tampered =>
        /\ cRes.kind # "Ok"
        /\ cPm.encryptor.id = AESENCRYPTOR_ID =>
               (cRes.err = "DecryptionError" /\ cRes.stage = "decrypt")
        /\ cPm.encryptor.id = BLANKENCRYPTOR_ID =>
               (cRes.kind = "Err" /\ cRes.err = "IvalidKeyError")

C4_Witness ==
    /\ Tampered
    /\ cPm.encryptor.id = BLANKENCRYPTOR_ID
    /\ cTamper = Len(cBytes) - 1
    /\ cIn.data # cBytes
    /\ cRes.err = "IvalidKeyError"

\* C5: a header of 34 bytes with the known version and an encryptor id other
\* than 0 and 1 makes decode fail with UnsupportedEncryptorVersionError
\* having taken exactly the 34 header bytes from the reader.
C5_UnsupportedEncryptor ==
    (cPhase = "decoded" /\ InHeaderRead /\ cIn.data[1] = V0_0
       /\ cIn.data[2] \notin {BLANKENCRYPTOR_ID, AESENCRYPTOR_ID}) =>
        /\ cRes.kind = "Err"
        /\ cRes.err = "UnsupportedEncryptorVersionError"
        /\ cRes.consumed = HeaderSize

C5_Witness ==
    /\ cPhase = "decoded" /\ InHeaderRead
    /\ cIn.data[1] = V0_0 /\ cIn.data[2] = 255
    /\ Len(cIn.data) > HeaderSize
    /\ cRes.err = "UnsupportedEncryptorVersionError"

\* C6: for every password and every input stream Encoder::decode returns a
\* vault or a typed error and never aborts.
C6_DecodeNeverAborts ==
    cPhase = "decoded" => cRes.kind \in {"Ok", "Err"}

\* C7: when decode returns a vault the digest of the decrypted body equals
\* the header's digest; when the provider's decrypt succeeds and the digests
\* differ decode fails with IvalidKeyError without parsing the body.
C7_DigestInvariant ==
    (cPhase = "decoded" /\ InHeaderRead) =>
        LET d == InDecrypted
            differ == Sha256(d.data) # InDigest
        IN  /\ cRes.kind = "Ok" => (d.ok /\ ~differ)
            /\ (cIn.data[1] = V0_0 /\ InEncryptor.some /\ d.ok /\ differ) =>
                   (cRes.kind = "Err" /\ cRes.err = "IvalidKeyError"
                      /\ cRes.stage = "digest")

C7_Witness ==
    /\ RawDecoded /\ InHeaderRead
    /\ cIn.data[1] = V0_0 /\ cIn.data[2] = AESENCRYPTOR_ID
    /\ InDecrypted.ok
    /\ Sha256(InDecrypted.data) # InDigest
    /\ cRes.err = "IvalidKeyError"

\* ------------------------------------------------------------ command claims

\* C2: after init with password P and any sequence of store commands, a get
\* of a stored key that opens the data file with P decodes it and returns
\* the value last stored under the key, also when a later encoding is
\* shorter than the one it replaces.
C2_PersistedStoreGet ==
    (last.cmd = "get" /\ last.outcome \notin { "notInitialized", "ioError" }
       /\ last.pw = vaultPw /\ last.key \in DOMAIN stored) =>
        (last.outcome = "ok" /\ last.value = stored[last.key])

\* C8: when the trigger sequence that an open of the decoy file started in a
\* shield process has ended, the decoy is no longer mounted and the real root
\* no longer exists.
C8_SelfDestruct ==
    (wEnd.done /\ wEnd.opened) => (~wEnd.mounted /\ ~wEnd.realRoot)

\* C9: a `shield down` run while the shield is up and no open event has
\* occurred reports the shield as down only if its unmount succeeded.
C9_DownReportedOnlyIfUnmounted ==
    (last.cmd = "shieldDown" /\ last.outcome = "down") => downUmount # "failed"

\* C10: after a `shield down` run while the shield process is blocked, no
\* later open of the decoy file makes the shield process delete the real
\* root.
C10_DownCancelsSession ==
    cancelled => ~(destroyedByWatcher /\ wEnd.opened)

\* ------------------------------------------------------------ vault claims

\* What get_password is to return for key on a vault whose stores were vPlain.
ExpectedGet(key) ==
    IF key \in DOMAIN vPlain THEN [ok |-> TRUE, err |-> "", value |-> vPlain[key]]
    ELSE [ok |-> FALSE, err |-> "NoPasswordFound", value |-> << >>]

\* C11: on one in-memory vault, after any sequence of operations, get of a
\* key fails with NoPasswordFound exactly when the key was never stored and
\* otherwise returns the plaintext last stored under it; store leaves the
\* entries of all other keys unchanged and get changes no entry.
C11_VaultStoreGet ==
    /\ [](vLast.op # "none" =>
            /\ \A key \in Keys : get_password(vPm, key) = ExpectedGet(key)
            /\ vLast.op = "get" => vLast.res = ExpectedGet(vLast.key))
    /\ [][/\ (vLast'.op = "store" /\ vaultVars' # vaultVars) =>
               \A key \in DOMAIN vPm.kv \ { vLast'.key } :
                  key \in DOMAIN vPm'.kv /\ vPm'.kv[key] = vPm.kv[key]
          /\ vLast'.op = "get" => vPm' = vPm]_vars

C11_Witness ==
    /\ vPm.encryptor.id = AESENCRYPTOR_ID
    /\ Cardinality(DOMAIN vPlain) = 2
    /\ vLast.op = "get"
    /\ vLast.res = [ok |-> TRUE, err |-> "", value |-> << 98, 97, 114 >>]
    /\ vPm.kv[vLast.key] # << 98, 97, 114 >>

\* ------------------------------------------------------------ storage claims

\* C12: over any interleaving of init, clear, store and get commands: init
\* is let to its password prompt exactly when the storage is not
\* initialised, Storage::init succeeds exactly when the root does not exist,
\* and a refused init leaves the root and the data file unchanged; clear
\* answers RootDoesNotExistErorr exactly when the root does not exist and
\* otherwise removes the root with its contents; store and get are refused
\* as not initialised exactly when the root or its data file is missing as
\* they start, and one that finds the data file gone after its prompt ends
\* with an i/o error; after a successful init the storage is initialised.
C12_Lifecycle ==
    [][IF atPrompt' # atPrompt /\ atPrompt \subseteq atPrompt'
       THEN /\ UNCHANGED fsVars
            /\ atPrompt' \ atPrompt = { "init" } => ~is_initialized
            /\ atPrompt' \ atPrompt # { "init" } => is_initialized
       ELSE /\ last'.cmd = "init" =>
                 IF last'.outcome = "alreadyInitialized"
                 THEN is_initialized /\ UNCHANGED fsVars
                 ELSE /\ "init" \in atPrompt
                      /\ (last'.outcome = "ok") <=> ~RootExists
                      /\ last'.outcome = "ok" => is_initialized'
                      /\ last'.outcome # "ok" =>
                             /\ last'.outcome = "rootAlreadyExists"
                             /\ UNCHANGED fsVars
            /\ last'.cmd = "clear" =>
                 /\ (last'.outcome = "rootDoesNotExist") <=> ~RootExists
                 /\ ~RootExists => UNCHANGED fsVars
                 /\ RootExists =>
                        /\ last'.outcome = "ok"
                        /\ ~RootExists' /\ ~dataExists' /\ dataFile' = << >>
            /\ last'.cmd \in { "store", "get" } =>
                 IF last'.outcome = "notInitialized"
                 THEN ~(RootExists /\ DataFileExists) /\ UNCHANGED fsVars
                 ELSE /\ last'.cmd \in atPrompt
                      /\ (last'.outcome = "ioError") <=> ~DataFileExists
                      /\ last'.outcome = "ioError" => UNCHANGED fsVars]_vars

\* An init that waited at its prompt while another one made the storage.
C12_Witness ==
    /\ last.cmd = "init" /\ last.outcome = "rootAlreadyExists"
    /\ DOMAIN stored # {}
    /\ is_initialized

\* ------------------------------------------------------------ header claims

\* C13: decode fails with InvalidHeaderSize exactly when the reader holds
\* fewer than 34 bytes, however it delivers them; with 34 bytes and an unknown
\* version byte it fails with HeaderParseError, whatever the encryptor id,
\* having taken only the header from the reader.
C13_HeaderValidation ==
    cPhase = "decoded" =>
        /\ (cRes.err = "InvalidHeaderSize") <=> (Len(cIn.data) < HeaderSize)
        /\ (Len(cIn.data) >= HeaderSize /\ cIn.data[1] # V0_0) =>
               (cRes.kind = "Err" /\ cRes.err = "HeaderParseError"
                  /\ cRes.consumed = HeaderSize)

\* C14: the bytes Encoder::encode writes are the 34-byte header (the current
\* version, the provider's id, the SHA-256 of the plaintext body) followed by
\* the provider's encryption of the plaintext body and nothing else.
C14_EncodeLayout ==
    cPhase = "encoded" =>
        \E order \in Orders(DOMAIN cPm.kv), nonce \in Nonces :
            LET body == BodyToBytes(cPm.kv, order)
            IN  /\ Len(cBytes) >= HeaderSize
                /\ cBytes[1] = current_version
                /\ cBytes[2] = cPm.encryptor.id
                /\ SubSeq(cBytes, 3, HeaderSize) = Sha256(body)
                /\ Drop(cBytes, HeaderSize) = Encrypt(cPm.encryptor, nonce, body)

C14_Witness ==
    /\ cPhase = "encoded"
    /\ cPm.encryptor.id = AESENCRYPTOR_ID
    /\ Cardinality(DOMAIN cPm.kv) = 2
    /\ Len(cBytes) > HeaderSize + NONCE_LENGTH + TagSize
    /\ cBytes[2] = AESENCRYPTOR_ID

\* C15: the store command reports success only when the complete header and
\* body have been written to the data file.
C15_EncodeFailureVisible ==
    (last.cmd = "store" /\ last.outcome = "ok") => ~last.short

\* ------------------------------------------------------------ shield claims

\* C16: while the decoy is mounted over the vault root the storage is seen
\* as not initialised; a get or a store that starts is refused as not
\* initialised and waits at no prompt, one that was at its prompt as the
\* decoy was mounted finds no data file to open and decodes and returns
\* nothing of the real vault; and no step changes the real root or the real
\* data file's bytes, which are thus the same at the unmount as at the mount.
C16_DecoySwap ==
    [][mounts > 0 =>
         /\ ~is_initialized
         /\ UNCHANGED << realRoot, dataExists, dataFile >>
         /\ (StoreCheck \/ GetCheck) =>
               (last'.outcome = "notInitialized" /\ UNCHANGED atPrompt)
         /\ (HandleStore \/ HandleGet) =>
               (last'.outcome = "ioError" /\ last'.value = << >>)]_vars

\* A store that passed with_init before the decoy was mounted and got its
\* password after.
C16_Witness ==
    /\ mounts > 0
    /\ last.cmd = "store" /\ last.outcome = "ioError"
    /\ last.pw = vaultPw
    /\ realRoot /\ dataExists /\ Len(dataFile) > HeaderSize


\* C17: no step of a `shield up` changes the real root or its data file; it
\* comes to its mount command only with the decoy made, and reports
\* nothing until the command has run; a mount
\* child that fails mounts nothing, and its `shield up` then ends with the
\* fatal message, registering no watch, mounting and unmounting nothing and
\* starting no trigger sequence; a watch is registered only by a `shield up`
\* whose mount child made the mount.
C17_ShieldFailuresFatal ==
    [][/\ (ShieldUpCheck \/ MountRuns \/ HandleShieldUp) =>
             UNCHANGED << realRoot, dataExists, dataFile >>
       /\ ShieldUpCheck =>
             /\ UNCHANGED << mounts, procVars, atWatch, atFatal,
                             destroyedByWatcher, wEnd >>
             /\ atMount' # atMount =>
                   (atMount' = atMount + 1 /\ decoyDir' /\ decoyFile'
                      /\ UNCHANGED last)
       /\ MountRuns =>
             /\ UNCHANGED << procVars, last, destroyedByWatcher, wEnd >>
             /\ atFatal' # atFatal =>
                   (atFatal' = atFatal + 1 /\ UNCHANGED << mounts, atWatch >>)
             /\ atWatch' # atWatch =>
                   (atWatch' = atWatch + 1 /\ mounts' = mounts + 1)
       /\ HandleShieldUp =>
             /\ UNCHANGED << mounts, wTriggered, wSleeping, umountsDown,
                             umountsWatch, destroyedByWatcher >>
             /\ atFatal' # atFatal =>
                   /\ last' = Said("shieldUp", "cannotMount")
                   /\ UNCHANGED << wBlocked, atWatch, wEnd >>
             /\ wBlocked' # wBlocked =>
                   /\ wBlocked' = wBlocked + 1
                   /\ atWatch' = atWatch - 1
                   /\ last' = Said("shieldUp", "up")]_vars

C17_Witness ==
    /\ last.cmd = "shieldUp"
    /\ last.outcome = "cannotMount"
    /\ realRoot /\ dataExists /\ Len(dataFile) >= HeaderSize
    /\ decoyDir /\ decoyFile
    /\ mounts = 0
    /\ Watchers = 0


\* C18: when the delete step of a watch loop woken by an open of the decoy
\* file ran, the umount spawned by the loop had completed, the decoy was no longer mounted over the vault root,
\* and the delete did not remove the decoy's contents.
C18_DeleteAfterUnmount ==
    (wEnd.done /\ wEnd.opened) =>
        (~wEnd.umountPending /\ ~wEnd.mounted /\ ~wEnd.decoyEmptied)


\* The decoy is mounted, no shield process watches and no umount spawned by
\* a trigger sequence is in flight.
Gap == mounts > 0 /\ Watchers = 0 /\ umountsWatch = 0

\* C19: a shield process that ends after its mount, before or after its
\* watch was registered, leaves the mount and everything else in place;
\* while the decoy is mounted with no shield process watching, the storage
\* is seen as not initialised, the real root and data file exist and no step
\* changes them, and a mount goes only by one umount spawned by
\* `shield down`.
C19_CrashRecoveryGap ==
    /\ [](Gap => (~is_initialized /\ realRoot /\ dataExists))
    /\ [][/\ ShieldCrash => UNCHANGED fsVars
          /\ Gap => /\ UNCHANGED << realRoot, dataExists, dataFile >>
                    /\ mounts' < mounts =>
                          (mounts' = mounts - 1 /\ umountsDown' = umountsDown - 1)]_vars

C19_Witness ==
    /\ wEnd.crashed
    /\ wEnd.unwatched
    /\ last.cmd = "shieldDown"
    /\ last.outcome = "down"
    /\ mounts = 0
    /\ Pending = 0
    /\ Watchers = 0
    /\ is_initialized
    /\ Len(dataFile) >= HeaderSize


\* ------------------------------------------------------------ body claims

\* C20: parsing the bytes Body::to_bytes wrote for a mapping, in whatever
\* order its entries were written, succeeds and gives the same mapping with
\* the same number of entries; the empty mapping is written as no bytes.
C20_BodyRoundTrip ==
    cPhase = "parsed" =>
        /\ cRes.kind = "Ok"
        /\ cRes.pm.kv = cPm.kv
        /\ Cardinality(DOMAIN cRes.pm.kv) = Cardinality(DOMAIN cPm.kv)
        /\ (cPm.kv = EmptyKv) <=> (cBytes = << >>)

C20_Witness ==
    /\ cPhase = "parsed"
    /\ cRes.kind = "Ok"
    /\ DOMAIN cPm.kv = { << >>, << 198, 165 >> }
    /\ cPm.kv[<< >>] = << >>
    /\ cPm.kv[<< 198, 165 >>] = << 255, 0 >>
    /\ SubSeq(cBytes, 1, 2 * U64Size) = U64ToBe(2) \o U64ToBe(2)


\* ------------------------------------------------------------ encryptor claims

\* The 32 bytes the claim gives for a password: its bytes up to the 32nd,
\* then zero bytes.
ExpectedKey(password) ==
    [i \in 1..KeySize |-> IF i <= Len(password) THEN password[i] ELSE 0]

\* C21: the key of AESEncryptor::new is the password truncated to 32 bytes
\* or right-padded with zero bytes to 32, and data encrypted under one
\* password decrypts under another, to the same data, exactly when the two
\* passwords are equal after this truncation and padding.
C21_KeyDerivation ==
    /\ cPhase \in { "encrypted", "decrypted" } =>
          cPm.encryptor.key = ExpectedKey(cPw)
    /\ cPhase = "decrypted" =>
          /\ cRes.pm.encryptor.key = ExpectedKey(cKey)
          /\ (cRes.kind = "Ok") <=> (ExpectedKey(cKey) = ExpectedKey(cPw))
          /\ cRes.kind = "Ok" => cRes.data = cIn.data

C21_Witness ==
    /\ cPhase = "decrypted"
    /\ cPw = Rep(97, KeySize)
    /\ cKey = Rep(97, KeySize) \o << 98 >>
    /\ cRes.kind = "Ok"
    /\ cRes.data = << 102, 111, 111 >>


\* C22 as stated: a `shield up` invoked while the decoy is mounted is not
\* refused: unless the decoy cannot be made, it goes on to its mount.
C22_ShieldUpNotGuarded ==
    [][(ShieldUpCheck /\ mounts > 0) =>
         (atMount' = atMount + 1 \/ last'.outcome = "cannotCreateDummy")]_vars

\* C22 amended: a `shield up` invoked while the decoy is mounted is refused
\* as not initialised: it makes no mount, starts no watch and creates
\* nothing; a mount is made only by the mount child of a `shield up` that
\* waits for it, and a `shield up` comes to wait for its child only while
\* the storage is seen as initialised, that is with no decoy mounted.
C22_ShieldUpRefusedWhileUp ==
    [][/\ (ShieldUpCheck /\ mounts > 0) =>
            /\ last' = Said("shieldUp", "notInitialized")
            /\ UNCHANGED << fsVars, procVars, promptVars >>
       /\ mounts' > mounts =>
            (atMount' = atMount - 1 /\ atWatch' = atWatch + 1
               /\ mounts' = mounts + 1)
       /\ atMount' > atMount => (is_initialized /\ mounts = 0)]_vars

C22_Witness ==
    /\ last.cmd = "shieldUp"
    /\ last.outcome = "notInitialized"
    /\ mounts = 1
    /\ wBlocked = 1
    /\ realRoot /\ dataExists
    /\ decoyDir /\ decoyFile

====
